---- MODULE Spec2Model ----
(***************************************************************************)
(* Flask-User: the TokenManager (flask_user/token_manager.py) and the      *)
(* EmailManager's send guard (flask_user/email_manager.py).                *)
(*                                                                         *)
(* Strings are sequences of character codes (Python 2 byte strings), so    *)
(* that formatting, base-64 and parsing are computed and not assumed.      *)
(* Integers wider than TLC's are kept as a sign and a sequence of decimal  *)
(* digits.                                                                 *)
(***************************************************************************)
EXTENDS Integers, Sequences, FiniteSets, TLC

VARIABLES
    manager,      \* the TokenManager (its cipher key and its signer's secret), if constructed
    now,          \* the clock the signer reads (seconds)
    ticks,        \* how often the clock has advanced (bounds the model)
    token,        \* the last token generate_token returned, or NoToken
    result,       \* the call that has just ended, until its caller takes the result: its
                  \* arguments and what it returned or raised
    threads,      \* per thread: the call in progress, its position and its locals
    app_testing,  \* EmailManager: app.testing
    sender_email, \* EmailManager: self.sender_email
    outbox,       \* EmailManager: the messages handed to the mailer, in order
    email_result  \* EmailManager: how the last _send_email_message ended

vars == <<manager, now, ticks, token, result, threads,
          app_testing, sender_email, outbox, email_result>>

tokenVars == <<manager, now, ticks, token, result>>
emailVars == <<app_testing, sender_email, outbox, email_result>>

(***************************************************************************)
(* Characters                                                              *)
(***************************************************************************)
Range(lo, hi) == [i \in 1..(hi - lo + 1) |-> lo + i - 1]

Upper == Range(65, 90)
Lower == Range(97, 122)
DigitChars == Range(48, 57)

ChZero == 48
ChPad == 61
ChSep == 46
ChMinus == 45
ChPlus == 43
ChAt == 64

\* Python's None and a value that is not None: an optional value is a sequence of
\* at most one element
None == <<>>
Some(x) == <<x>>
The(o) == o[1]

\* no exception was raised
NoExc == "NoExc"

\* F applied to the value of x. TLC evaluates a LET definition and an operator's
\* argument again at each use; the variable of a set constructor holds a value.
Let(x, F(_)) == CHOOSE r \in {F(v) : v \in {x}} : TRUE

\* '=='
PadPad == <<ChPad, ChPad>>

Last(s) == s[Len(s)]

IndexOf(s, c) == IF \E i \in 1..Len(s) : s[i] = c
                 THEN CHOOSE i \in 1..Len(s) : s[i] = c /\ \A j \in 1..(i - 1) : s[j] # c
                 ELSE 0

Contains(s, c) == \E i \in 1..Len(s) : s[i] = c

\* the index of the last c in s, 0 when there is none (str.rsplit(c, 1))
LastIndexOf(s, c) == IF Contains(s, c)
                     THEN CHOOSE i \in 1..Len(s) : s[i] = c /\ \A j \in (i + 1)..Len(s) : s[j] # c
                     ELSE 0

(***************************************************************************)
(* base64.urlsafe_b64encode / urlsafe_b64decode (Python 2)                 *)
(***************************************************************************)
\* the url-safe alphabet: A-Z a-z 0-9 - _
B64Alphabet == Upper \o Lower \o DigitChars \o <<45, 95>>

B64Char(v) == B64Alphabet[v + 1]

RECURSIVE urlsafe_b64encode(_)
urlsafe_b64encode(bs) ==
    IF Len(bs) = 0 THEN <<>>
    ELSE IF Len(bs) = 1
    THEN <<B64Char(bs[1] \div 4), B64Char((bs[1] % 4) * 16), ChPad, ChPad>>
    ELSE IF Len(bs) = 2
    THEN <<B64Char(bs[1] \div 4), B64Char((bs[1] % 4) * 16 + bs[2] \div 16),
           B64Char((bs[2] % 16) * 4), ChPad>>
    ELSE <<B64Char(bs[1] \div 4), B64Char((bs[1] % 4) * 16 + bs[2] \div 16),
           B64Char((bs[2] % 16) * 4 + bs[3] \div 64), B64Char(bs[3] % 64)>>
         \o urlsafe_b64encode(SubSeq(bs, 4, Len(bs)))

\* the 6-bit value of a character, -1 for one outside the alphabet. The url-safe
\* decoder translates - and _ to + and / and then decodes with the standard
\* table, so + (43) and / (47) are accepted as well.
B64Value(c) ==
    IF c >= 65 /\ c <= 90 THEN c - 65
    ELSE IF c >= 97 /\ c <= 122 THEN c - 71
    ELSE IF c >= 48 /\ c <= 57 THEN c + 4
    ELSE IF c = 45 \/ c = 43 THEN 62
    ELSE IF c = 95 \/ c = 47 THEN 63
    ELSE -1

\* a character that carries six bits: one of the table, the pad character apart
IsData(c) == c <= 127 /\ B64Value(c) >= 0

\* binascii_find_valid(s, 1) called at a pad character at position i: the next
\* character after i that is in the table (the pad character is), -1 if none
NextValid(s, i) ==
    LET valid == {j \in (i + 1)..Len(s) : IsData(s[j]) \/ s[j] = ChPad}
    IN IF valid = {} THEN -1 ELSE s[CHOOSE j \in valid : \A k \in valid : j <= k]

\* quad_pos when the decoder reaches position i: the data characters before it
QuadPos(s, i) == Cardinality({j \in 1..(i - 1) : IsData(s[j])}) % 4

\* the six-bit values of the data characters of s
B64Values(s) ==
    Let(SelectSeq(s, IsData), LAMBDA data : [i \in 1..Len(data) |-> B64Value(data[i])])

\* the k-th byte of the bits of the six-bit values v
B64Byte(v, k) ==
    LET c == (8 * (k - 1)) \div 6 + 1
        off == (8 * (k - 1)) % 6
    IN IF off = 0 THEN v[c] * 4 + v[c + 1] \div 16
       ELSE IF off = 2 THEN (v[c] % 16) * 16 + v[c + 1] \div 4
       ELSE (v[c] % 4) * 64 + v[c + 1]

\* binascii.a2b_base64. The decoder reads character by character: one outside
\* the alphabet is skipped; a pad character is skipped when fewer than two
\* characters of the quad were read, or when two were read and the next valid
\* character is no pad, and ends the input otherwise; each data character
\* shifts six bits in and a byte leaves whenever eight are there. Bits left
\* over at the end of the input are an error ("Incorrect padding").
a2b_base64(s) ==
    Let({i \in 1..Len(s) :
            /\ s[i] = ChPad
            /\ \/ QuadPos(s, i) = 3
               \/ QuadPos(s, i) = 2 /\ NextValid(s, i) = ChPad},
        LAMBDA ends :
    Let(IF ends = {} THEN Len(s) + 1 ELSE CHOOSE i \in ends : \A k \in ends : i <= k,
        LAMBDA stop :
    Let(B64Values(SubSeq(s, 1, stop - 1)),
        LAMBDA v :
            [ok |-> ends # {} \/ Len(v) % 4 = 0,
             bytes |-> [k \in 1..((6 * Len(v)) \div 8) |-> B64Byte(v, k)]])))

\* [ok |-> FALSE] stands for the TypeError the decoder raises
urlsafe_b64decode(s) == Let(s, LAMBDA t : a2b_base64(t))

(***************************************************************************)
(* Integers: Python's are unbounded, so an id is a sign and its decimal    *)
(* digits, most significant first, without leading zeros.                  *)
(***************************************************************************)
Zero == [neg |-> FALSE, digs |-> <<0>>]

\* the digits without their leading zeros, the last digit kept
StripZeros(ds) ==
    LET first == CHOOSE i \in 1..Len(ds) :
                    /\ i = Len(ds) \/ ds[i] # 0
                    /\ \A j \in 1..(i - 1) : ds[j] = 0
    IN SubSeq(ds, first, Len(ds))

Canonical(neg, ds) ==
    Let(StripZeros(ds), LAMBDA d : [neg |-> neg /\ d # <<0>>, digs |-> d])

Zeros(n) == [i \in 1..n |-> ChZero]

\* the field width of '%016d'
IdWidth == 16

\* '%016d' % id: the sign, then zeros up to the width, then the digits; a number
\* wider than the field is written in full
Format016d(id) ==
    LET sign == IF id.neg THEN <<ChMinus>> ELSE <<>>
        body == [i \in 1..Len(id.digs) |-> ChZero + id.digs[i]]
        fill == IdWidth - Len(sign) - Len(body)
    IN sign \o Zeros(IF fill > 0 THEN fill ELSE 0) \o body

IsDigit(c) == c >= 48 /\ c <= 57

\* the text between the first and the last character of s that is not in drop
StripChars(s, drop) ==
    Let({i \in 1..Len(s) : s[i] \notin drop},
        LAMBDA solid :
            IF solid = {} THEN <<>>
            ELSE SubSeq(s, CHOOSE i \in solid : \A k \in solid : i <= k,
                           CHOOSE i \in solid : \A k \in solid : i >= k))

\* str.strip()
Strip(s) == StripChars(s, {9, 10, 11, 12, 13, 32})

\* int(s): surrounding whitespace, an optional sign, then one or more decimal
\* digits; anything else is a ValueError
ParseInt(s) ==
    Let(Strip(s), LAMBDA t :
        LET signed == Len(t) > 0 /\ t[1] \in {ChMinus, ChPlus}
            first == IF signed THEN 2 ELSE 1
        IN IF first <= Len(t) /\ \A i \in first..Len(t) : IsDigit(t[i])
           THEN [exc |-> NoExc,
                 val |-> Canonical(signed /\ t[1] = ChMinus,
                                   [i \in 1..(Len(t) - first + 1) |-> t[i + first - 1] - ChZero])]
           ELSE [exc |-> "ValueError", val |-> None])

(***************************************************************************)
(* Crypto.Cipher.AES in its default mode (ECB). The cipher stands for any  *)
(* keyed permutation of 16-byte blocks: here each byte is shifted by the   *)
(* key byte at its place. Input that is not whole blocks is a ValueError.  *)
(***************************************************************************)
BlockSize == 16

AESEncrypt(key, s) ==
    IF Len(s) % BlockSize # 0
    THEN [exc |-> "ValueError", val |-> None]
    ELSE [exc |-> NoExc,
          val |-> [i \in 1..Len(s) |-> (s[i] + key[((i - 1) % BlockSize) + 1]) % 256]]

AESDecrypt(key, s) ==
    IF Len(s) % BlockSize # 0
    THEN [exc |-> "ValueError", val |-> None]
    ELSE [exc |-> NoExc,
          val |-> [i \in 1..Len(s) |-> (s[i] + 256 - key[((i - 1) % BlockSize) + 1]) % 256]]

\* a cipher that chains: after use it holds the last block it was given
CipherAfterUse_Chained(cipher, data) ==
    IF Len(data) >= BlockSize THEN SubSeq(data, Len(data) - BlockSize + 1, Len(data)) ELSE cipher

\* the cipher object after encrypt(data) or decrypt(data): in ECB mode it keeps
\* nothing of what it was given
CipherAfterUse(cipher, data) == cipher

(***************************************************************************)
(* TokenManager.__init__                                                   *)
(***************************************************************************)
\* no manager has been constructed
NoManager == None

\* '0123456789abcdef'
KeyFiller == DigitChars \o Range(97, 102)

\* __init__(app_secret), app_secret None or Some(string): None + str is a
\* TypeError; any string, the empty one included, yields a manager
TokenManagerInit(app_secret) ==
    IF app_secret = None
    THEN [exc |-> "TypeError", val |-> NoManager]
    ELSE LET key == The(app_secret) \o KeyFiller
             sixteen_byte_key == SubSeq(key, 1, 16)
         IN [exc |-> NoExc,
             val |-> Some([cipher |-> sixteen_byte_key, signer |-> The(app_secret)])]

(***************************************************************************)
(* TokenManager.encrypt_id / decrypt_id                                    *)
(***************************************************************************)
\* a slip in the slice: s[0:-3], which takes a character of data as well
DropLastThree(s) == SubSeq(s, 1, Len(s) - 3)

\* s[0:-2]
DropLastTwo(s) == SubSeq(s, 1, Len(s) - 2)

encrypt_id(self, id) ==
    Let(AESEncrypt(self.cipher, Format016d(id)), LAMBDA str2 :
        IF str2.exc # NoExc
        THEN [exc |-> str2.exc, val |-> None]
        ELSE [exc |-> NoExc, val |-> DropLastTwo(urlsafe_b64encode(str2.val))])

\* what the bare except returns
DecryptFallback == Zero

\* str.encode('ascii') of a Python 2 byte string decodes it as ASCII first
IsAscii(s) == \A i \in 1..Len(s) : s[i] <= 127

\* the body of decrypt_id's try: what it returns, or the exception it raises
decrypt_id_try(self, encrypted_id) ==
    IF ~IsAscii(encrypted_id) THEN [exc |-> "UnicodeDecodeError", val |-> None]
    ELSE Let(urlsafe_b64decode(encrypted_id \o PadPad), LAMBDA str2 :
         IF ~str2.ok THEN [exc |-> "TypeError", val |-> None]
         ELSE Let(AESDecrypt(self.cipher, str2.bytes), LAMBDA str1 :
              IF str1.exc # NoExc THEN [exc |-> str1.exc, val |-> None]
              ELSE ParseInt(str1.val)))

decrypt_id(self, encrypted_id) ==
    Let(decrypt_id_try(self, encrypted_id), LAMBDA r :
        IF r.exc # NoExc THEN DecryptFallback ELSE r.val)

(***************************************************************************)
(* itsdangerous.TimestampSigner, as TokenManager uses it: sign(value) and  *)
(* unsign(token, max_age).                                                 *)
(***************************************************************************)
RECURSIVE SumAt(_, _, _)
\* the sum of m[i], m[i + DigestSize], m[i + 2 * DigestSize], ...
SumAt(m, i, step) == IF i > Len(m) THEN 0 ELSE m[i] + SumAt(m, i + step, step)

\* the size of an HMAC-SHA1 digest
DigestSize == 20

\* HMAC-SHA1 under the signer's secret stands for any keyed 20-byte digest that
\* changes when one character of the value or of the secret changes
Digest(secret, value) ==
    Let(secret \o <<ChSep>> \o value, LAMBDA m :
        [i \in 1..DigestSize |-> (SumAt(m, i, DigestSize) + i) % 256])

\* str.strip('=')
StripPad(s) == StripChars(s, {ChPad})

\* itsdangerous.base64_encode: url-safe base-64 without the padding
base64_encode(bs) == Let(urlsafe_b64encode(bs), LAMBDA s : StripPad(s))

\* itsdangerous.base64_decode: the padding is restored from the length
base64_decode(s) ==
    urlsafe_b64decode(s \o [i \in 1..((4 - (Len(s) % 4)) % 4) |-> ChPad])

RECURSIVE int_to_bytes(_)
\* big-endian, no leading zero byte; 0 is the empty string
int_to_bytes(n) == IF n = 0 THEN <<>> ELSE Append(int_to_bytes(n \div 256), n % 256)

RECURSIVE bytes_to_int(_)
bytes_to_int(bs) ==
    IF Len(bs) = 0 THEN 0 ELSE bytes_to_int(SubSeq(bs, 1, Len(bs) - 1)) * 256 + bs[Len(bs)]

get_signature(secret, value) == base64_encode(Digest(secret, value))

\* Signer.verify_signature: a signature that is not base-64 does not verify
verify_signature(secret, value, sig) ==
    Let(base64_decode(sig), LAMBDA d : d.ok /\ d.bytes = Digest(secret, value))

\* TimestampSigner.sign(value) at clock reading t
sign(secret, value, t) ==
    Let(value \o <<ChSep>> \o base64_encode(int_to_bytes(t)), LAMBDA stamped :
        stamped \o <<ChSep>> \o get_signature(secret, stamped))

\* the exception classes: SignatureExpired is a BadTimeSignature, which is a
\* BadSignature
IsInstance(exc, cls) ==
    \/ exc = cls
    \/ cls = "BadSignature" /\ exc \in {"BadTimeSignature", "SignatureExpired"}
    \/ cls = "BadTimeSignature" /\ exc = "SignatureExpired"

\* TimestampSigner.unsign(token, max_age) at clock reading t: the signature is
\* checked first, then that a timestamp is there and well formed, then the age
unsign(secret, tok, max_age, t) ==
    Let(LastIndexOf(tok, ChSep), LAMBDA cut :
    Let(cut > 0 /\ verify_signature(secret, SubSeq(tok, 1, cut - 1), SubSeq(tok, cut + 1, Len(tok))),
        LAMBDA sig_ok :
    \* the signed text, or what a failed check leaves of it
    Let(IF cut > 0 THEN SubSeq(tok, 1, cut - 1) ELSE <<>>, LAMBDA res :
    Let(LastIndexOf(res, ChSep), LAMBDA cut2 :
        IF cut2 = 0
        THEN [exc |-> IF sig_ok THEN "BadTimeSignature" ELSE "BadSignature", val |-> None]
        ELSE IF ~sig_ok THEN [exc |-> "BadTimeSignature", val |-> None]
        ELSE Let(base64_decode(SubSeq(res, cut2 + 1, Len(res))), LAMBDA stamp :
             IF ~stamp.ok THEN [exc |-> "BadTimeSignature", val |-> None]
             ELSE IF t - bytes_to_int(stamp.bytes) > max_age
             THEN [exc |-> "SignatureExpired", val |-> None]
             ELSE [exc |-> NoExc, val |-> SubSeq(res, 1, cut2 - 1)])))))

(***************************************************************************)
(* TokenManager.generate_token / verify_token                              *)
(***************************************************************************)
\* generate_token once encrypt_id has returned or raised (enc)
generate_token_sign(self, enc, t) ==
    IF enc.exc # NoExc
    THEN [exc |-> enc.exc, val |-> None]
    ELSE [exc |-> NoExc, val |-> sign(self.signer, enc.val, t)]

generate_token(self, user_id, t) ==
    Let(encrypt_id(self, user_id), LAMBDA enc : generate_token_sign(self, enc, t))

\* the max_age verify_token hands to unsign
UnsignMaxAge == 1000

\* the tuple verify_token returns, user_id None or Some(id)
Outcome(is_valid, has_expired, user_id) ==
    [is_valid |-> is_valid, has_expired |-> has_expired, user_id |-> user_id]

\* a slip in the handlers: the BadSignature handler reports the token expired
verify_token_BadAsExpired(self, data) ==
    IF data.exc = NoExc
    THEN [exc |-> NoExc, val |-> Outcome(TRUE, FALSE, Some(decrypt_id(self, data.val)))]
    ELSE IF IsInstance(data.exc, "BadSignature")
    THEN [exc |-> NoExc, val |-> Outcome(FALSE, TRUE, None)]
    ELSE [exc |-> data.exc, val |-> None]

\* a slip in the handlers: only SignatureExpired is caught
verify_token_ExpiredOnly(self, data) ==
    IF data.exc = NoExc
    THEN [exc |-> NoExc, val |-> Outcome(TRUE, FALSE, Some(decrypt_id(self, data.val)))]
    ELSE IF IsInstance(data.exc, "SignatureExpired")
    THEN [exc |-> NoExc, val |-> Outcome(FALSE, TRUE, None)]
    ELSE [exc |-> data.exc, val |-> None]

\* verify_token once unsign has returned or raised (data): the try's remaining
\* statements and the two handlers, SignatureExpired first. An exception that
\* neither handler catches would leave the call.
verify_token_handle(self, data) ==
    IF data.exc = NoExc
    THEN [exc |-> NoExc, val |-> Outcome(TRUE, FALSE, Some(decrypt_id(self, data.val)))]
    ELSE IF IsInstance(data.exc, "SignatureExpired")
    THEN [exc |-> NoExc, val |-> Outcome(FALSE, TRUE, None)]
    ELSE IF IsInstance(data.exc, "BadSignature")
    THEN [exc |-> NoExc, val |-> Outcome(FALSE, FALSE, None)]
    ELSE [exc |-> data.exc, val |-> None]

\* verify_token(token, max_age) at clock reading t; max_age is not read
verify_token(self, tok, max_age, t) ==
    Let(unsign(self.signer, tok, UnsignMaxAge, t), LAMBDA data :
        verify_token_handle(self, data))

(***************************************************************************)
(* Inputs                                                                  *)
(***************************************************************************)
\* the clock advances at most this often
MaxTicks == 2

\* the secrets a manager is constructed from: missing, empty, shorter than a
\* cipher key ('k9'), and 'supersecretkey16'
ShortSecret == <<107, 57>>
LongSecret == <<115, 117, 112, 101, 114, 115, 101, 99, 114, 101, 116, 107, 101, 121, 49, 54>>
Secrets == {None, Some(<<>>), Some(ShortSecret), Some(LongSecret)}

\* a secret no manager of the model holds ('evil')
OtherSecret == <<101, 118, 105, 108>>

Nat10(ds) == [neg |-> FALSE, digs |-> ds]
\* 10^n, which has n + 1 digits, and 10^n - 1, which has n
Pow10(n) == Nat10(<<1>> \o [i \in 1..n |-> 0])
Nines(n) == Nat10([i \in 1..n |-> 9])

\* the ids tokens are generated for: 0, 42, 10^16 - 1, 10^16, 10^31
GenIds == {Zero, Nat10(<<4, 2>>), Nines(IdWidth), Pow10(IdWidth), Pow10(2 * BlockSize - 1)}

\* an id within the 16-digit width
InRange(id) == ~id.neg /\ Len(id.digs) <= IdWidth

\* how far the clock advances in one step
TickSteps == {1, UnsignMaxAge}

\* the max_age a caller passes to verify_token
MaxAges == {0, 1, 2 * UnsignMaxAge}

\* the base-64 character whose value differs in the lowest bit, for a base-64
\* character; the character itself otherwise
FlipLowBit(c) ==
    IF B64Value(c) < 0 THEN c
    ELSE B64Char(IF B64Value(c) % 2 = 0 THEN B64Value(c) + 1 ELSE B64Value(c) - 1)

\* the places of a token where a copy is changed: the first and last character
\* of its payload, of its timestamp and of its signature
TamperPlaces(tok) ==
    LET c2 == LastIndexOf(tok, ChSep)
        c1 == LastIndexOf(SubSeq(tok, 1, c2 - 1), ChSep)
    IN {p \in {1, c1 - 1, c1 + 1, c2 - 1, c2 + 1, Len(tok)} :
            p >= 1 /\ p <= Len(tok) /\ tok[p] # ChSep}

\* the characters a changed copy gets: the low bit flipped, a separator, '!'
TamperChars(c) == {FlipLowBit(c), ChSep, 33} \ {c}

\* the copies of tok with exactly one character changed
OneCharChanged(tok) ==
    {[tok EXCEPT ![p] = c] : <<p, c>> \in
        UNION {{<<q, d>> : d \in TamperChars(tok[q])} : q \in TamperPlaces(tok)}}

\* whether b is a with exactly one character changed
DiffersInOne(a, b) ==
    /\ Len(a) = Len(b)
    /\ Cardinality({i \in 1..Len(a) : a[i] # b[i]}) = 1

\* strings that are no token: '', 'abc', 'a.b', 'a.b.c', 'a.b.c.d', '\xc8.!.='
Junk == {<<>>, <<97, 98, 99>>, <<97, 46, 98>>, <<97, 46, 98, 46, 99>>,
         <<97, 46, 98, 46, 99, 46, 100>>, <<200, 46, 33, 46, 61>>}

NoToken == None

\* the token strings a caller may present: the issued one, its changed copies,
\* a token for the same payload signed under another secret, and junk
Presented(tk, t) ==
    IF tk = NoToken THEN Junk
    ELSE {The(tk).text} \cup OneCharChanged(The(tk).text) \cup Junk
         \cup {sign(OtherSecret, SubSeq(The(tk).text, 1, IndexOf(The(tk).text, ChSep) - 1), t)}

(***************************************************************************)
(* The token manager over time: construction, the clock, generate_token    *)
(* and verify_token on whatever arrives.                                   *)
(***************************************************************************)
NoCall == [op |-> "none"]

IdleThreads == <<>>

TokenInit ==
    /\ manager = NoManager
    /\ now = 0
    /\ ticks = 0
    /\ token = NoToken
    /\ result = NoCall

EmailIdle ==
    /\ app_testing = FALSE
    /\ sender_email = None
    /\ outbox = <<>>
    /\ email_result = [op |-> "none"]

Init ==
    /\ TokenInit
    /\ threads = IdleThreads
    /\ EmailIdle

\* TokenManager(app_secret)
Construct(app_secret) ==
    /\ result = NoCall
    /\ manager = NoManager
    /\ \E r \in {TokenManagerInit(app_secret)} :
          /\ manager' = r.val
          /\ result' = [op |-> "__init__", app_secret |-> app_secret, exc |-> r.exc]
    /\ UNCHANGED <<now, ticks, token, threads, emailVars>>

\* time passes
Tick(d) ==
    /\ result = NoCall
    /\ ticks < MaxTicks
    /\ ticks' = ticks + 1
    /\ now' = now + d
    /\ UNCHANGED <<manager, token, result, threads, emailVars>>

\* generate_token(user_id)
GenerateToken(user_id) ==
    /\ result = NoCall
    /\ manager # NoManager
    /\ \E r \in {generate_token(The(manager), user_id, now)} :
          /\ result' = [op |-> "generate_token", user_id |-> user_id, at |-> now,
                        exc |-> r.exc, val |-> r.val]
          /\ token' = IF r.exc = NoExc
                      THEN Some([text |-> r.val, user_id |-> user_id, at |-> now])
                      ELSE token
    /\ UNCHANGED <<manager, now, ticks, threads, emailVars>>

\* verify_token(tok, max_age)
VerifyToken(tok, max_age) ==
    /\ result = NoCall
    /\ manager # NoManager
    /\ \E r \in {verify_token(The(manager), tok, max_age, now)} :
          result' = [op |-> "verify_token", token |-> tok, max_age |-> max_age, at |-> now,
                     exc |-> r.exc, val |-> r.val]
    /\ UNCHANGED <<manager, now, ticks, token, threads, emailVars>>

\* the caller takes the result; the next call can begin
Return ==
    /\ result # NoCall
    /\ result' = NoCall
    /\ UNCHANGED <<manager, now, ticks, token, threads, emailVars>>

Next ==
    \/ \E s \in Secrets : Construct(s)
    \/ \E d \in TickSteps : Tick(d)
    \/ \E id \in GenIds : GenerateToken(id)
    \/ \E tok \in Presented(token, now), max_age \in MaxAges : VerifyToken(tok, max_age)
    \/ Return

Spec == Init /\ [][Next]_vars

(***************************************************************************)
(* The codec alone: encrypt_id on ids of every length, decrypt_id on what  *)
(* encrypt_id returned and on text that no encrypt_id returned.            *)
(***************************************************************************)
\* the longest id, in decimal digits
MaxDigits == 33

\* the number with n digits, the first d and the others r
Digits(n, d, r) == Nat10([i \in 1..n |-> IF i = 1 THEN d ELSE r])

\* 0, 42, and for every length 1, 10..0, 19..9, 90..0 and 9..9
CodecIds ==
    {Zero, Nat10(<<4, 2>>)} \cup {Digits(n, d, r) : n \in 1..MaxDigits, d \in {1, 9}, r \in {0, 9}}

\* text that is no encrypted id: '', 'abc', '!!!!', '\xc8' and 22 times 'A'
Undecodable == {<<>>, <<97, 98, 99>>, <<33, 33, 33, 33>>, <<200>>, [i \in 1..22 |-> 65]}

CodecInit ==
    /\ manager \in {TokenManagerInit(s).val : s \in Secrets \ {None}}
    /\ now = 0
    /\ ticks = 0
    /\ token = NoToken
    /\ result = NoCall
    /\ threads = IdleThreads
    /\ EmailIdle

\* encrypt_id(id)
EncryptId(id) ==
    /\ result = NoCall
    /\ \E r \in {encrypt_id(The(manager), id)} :
          result' = [op |-> "encrypt_id", id |-> id, exc |-> r.exc, val |-> r.val]
    /\ UNCHANGED <<manager, now, ticks, token, threads, emailVars>>

\* decrypt_id on what encrypt_id has just returned for result.id
DecryptEncrypted ==
    /\ result.op = "encrypt_id"
    /\ result.exc = NoExc
    /\ result' = [op |-> "decrypt_id", encrypted_id |-> result.val, of |-> Some(result.id),
                  val |-> decrypt_id(The(manager), result.val)]
    /\ UNCHANGED <<manager, now, ticks, token, threads, emailVars>>

\* decrypt_id on text that came from elsewhere
DecryptText(text) ==
    /\ result = NoCall
    /\ result' = [op |-> "decrypt_id", encrypted_id |-> text, of |-> None,
                  val |-> decrypt_id(The(manager), text)]
    /\ UNCHANGED <<manager, now, ticks, token, threads, emailVars>>

CodecNext ==
    \/ \E id \in CodecIds : EncryptId(id)
    \/ DecryptEncrypted
    \/ \E text \in Undecodable : DecryptText(text)
    \/ Return

SpecCodec == CodecInit /\ [][CodecNext]_vars

(***************************************************************************)
(* Concurrent calls on one manager. A call is a thread's steps; each step  *)
(* is one use of the manager's cipher or signer, and the steps of the      *)
(* threads interleave freely. No method of TokenManager assigns to self.   *)
(***************************************************************************)
ThreadIds == {"t1", "t2"}

\* the ids the threads generate tokens for: 42 and 10^16
ConcIds == {Nat10(<<4, 2>>), Pow10(IdWidth)}

\* the tokens the threads verify: the one for 42 generated at time 0, and 'a.b.c'
ConcTokens(self) == {generate_token(self, Nat10(<<4, 2>>), 0).val, <<97, 46, 98, 46, 99>>}

IdleThread == [pc |-> "idle", op |-> "none", user_id |-> Zero, tok |-> <<>>, max_age |-> 0,
               seen |-> None, clock |-> 0, local |-> [exc |-> NoExc, val |-> None],
               ret |-> [exc |-> NoExc, val |-> None], mixed |-> FALSE]

ConcInit ==
    /\ manager = TokenManagerInit(Some(LongSecret)).val
    /\ now = 0
    /\ ticks = 0
    /\ token = NoToken
    /\ result = NoCall
    /\ threads = [th \in ThreadIds |-> IdleThread]
    /\ EmailIdle

InCall(t) == t.pc \notin {"idle", "done"}

\* thread th takes a step that leaves it as next; a thread in the middle of its
\* call has seen another thread run
StepTo(th, next) ==
    threads' = [o \in ThreadIds |->
                    IF o = th THEN next
                    ELSE IF InCall(threads[o]) THEN [threads[o] EXCEPT !.mixed = TRUE]
                    ELSE threads[o]]

\* the manager after a use of its cipher on data
ManagerAfterUse(data) ==
    Some([The(manager) EXCEPT !.cipher = CipherAfterUse(@, data)])

\* thread th calls generate_token(user_id)
BeginGenerate(th, user_id) ==
    /\ threads[th].pc = "idle"
    /\ StepTo(th, [IdleThread EXCEPT !.pc = "encrypt", !.op = "generate_token",
                                    !.user_id = user_id, !.seen = manager])
    /\ UNCHANGED <<manager, now, ticks, token, result, emailVars>>

\* generate_token: self.encrypt_id(user_id)
StepEncrypt(th) ==
    /\ threads[th].pc = "encrypt"
    /\ \E enc \in {encrypt_id(The(manager), threads[th].user_id)} :
          StepTo(th, IF enc.exc # NoExc
                     THEN [threads[th] EXCEPT !.pc = "done", !.local = enc,
                               !.ret = generate_token_sign(The(manager), enc, now)]
                     ELSE [threads[th] EXCEPT !.pc = "sign", !.local = enc])
    /\ manager' = ManagerAfterUse(Format016d(threads[th].user_id))
    /\ UNCHANGED <<now, ticks, token, result, emailVars>>

\* generate_token: self.signer.sign(...), which reads the clock
StepSign(th) ==
    /\ threads[th].pc = "sign"
    /\ StepTo(th, [threads[th] EXCEPT !.pc = "done", !.clock = now,
                       !.ret = generate_token_sign(The(manager), threads[th].local, now)])
    /\ UNCHANGED <<manager, now, ticks, token, result, emailVars>>

\* thread th calls verify_token(tok, max_age)
BeginVerify(th, tok, max_age) ==
    /\ threads[th].pc = "idle"
    /\ StepTo(th, [IdleThread EXCEPT !.pc = "unsign", !.op = "verify_token", !.tok = tok,
                                    !.max_age = max_age, !.seen = manager])
    /\ UNCHANGED <<manager, now, ticks, token, result, emailVars>>

\* verify_token: self.signer.unsign(token, max_age=1000), which reads the clock
StepUnsign(th) ==
    /\ threads[th].pc = "unsign"
    /\ \E data \in {unsign(The(manager).signer, threads[th].tok, UnsignMaxAge, now)} :
          StepTo(th, IF data.exc # NoExc
                     THEN [threads[th] EXCEPT !.pc = "done", !.clock = now, !.local = data,
                               !.ret = verify_token_handle(The(manager), data)]
                     ELSE [threads[th] EXCEPT !.pc = "decrypt", !.clock = now, !.local = data])
    /\ UNCHANGED <<manager, now, ticks, token, result, emailVars>>

\* verify_token: self.decrypt_id(data)
StepDecrypt(th) ==
    /\ threads[th].pc = "decrypt"
    /\ StepTo(th, [threads[th] EXCEPT !.pc = "done",
                       !.ret = verify_token_handle(The(manager), threads[th].local)])
    /\ manager' = ManagerAfterUse(threads[th].local.val)
    /\ UNCHANGED <<now, ticks, token, result, emailVars>>

\* the call returns to its caller
Finish(th) ==
    /\ threads[th].pc = "done"
    /\ threads' = [threads EXCEPT ![th] = IdleThread]
    /\ UNCHANGED <<manager, now, ticks, token, result, emailVars>>

ConcNext ==
    \/ \E d \in TickSteps : Tick(d)
    \/ \E th \in ThreadIds, id \in ConcIds : BeginGenerate(th, id)
    \/ \E th \in ThreadIds : StepEncrypt(th)
    \/ \E th \in ThreadIds : StepSign(th)
    \/ \E th \in ThreadIds, tok \in ConcTokens(The(manager)), max_age \in MaxAges :
          BeginVerify(th, tok, max_age)
    \/ \E th \in ThreadIds : StepUnsign(th)
    \/ \E th \in ThreadIds : StepDecrypt(th)
    \/ \E th \in ThreadIds : Finish(th)

SpecConc == ConcInit /\ [][ConcNext]_vars

(***************************************************************************)
(* EmailManager._send_email_message                                        *)
(***************************************************************************)
\* the mailer holds at most this many messages
MaxOutbox == 2

\* USER_EMAIL_SENDER_EMAIL: not set, '', 'noreply' and 'a@b.c'
SenderEmails == {None, Some(<<>>), Some(<<110, 111, 114, 101, 112, 108, 121>>),
                 Some(<<97, 64, 98, 46, 99>>)}

\* what is sent: (recipient, subject, html_message, text_message)
Messages == [recipient : {"ann@example.com", "bob@example.com"},
             subject : {"Confirm your email", "Reset your password"}]

NoSend == [op |-> "none"]

\* a slip in the order: the sender address is checked before app.testing
send_email_message_ChecksFirst(testing, sender, box, msg) ==
    IF sender = None \/ The(sender) = <<>>
    THEN [exc |-> "ConfigError", outbox |-> box]
    ELSE IF ~Contains(The(sender), ChAt)
    THEN [exc |-> "ConfigError", outbox |-> box]
    ELSE IF testing THEN [exc |-> NoExc, outbox |-> box]
    ELSE [exc |-> NoExc, outbox |-> Append(box, msg)]

\* _send_email_message(recipient, subject, html_message, text_message) with
\* app.testing and self.sender_email as given: the exception it raises and the
\* mailer's messages after it
send_email_message(testing, sender, box, msg) ==
    IF testing THEN [exc |-> NoExc, outbox |-> box]
    ELSE IF sender = None \/ The(sender) = <<>>
    THEN [exc |-> "ConfigError", outbox |-> box]
    ELSE IF ~Contains(The(sender), ChAt)
    THEN [exc |-> "ConfigError", outbox |-> box]
    ELSE [exc |-> NoExc, outbox |-> Append(box, msg)]

TokenIdle ==
    /\ manager = NoManager
    /\ now = 0
    /\ ticks = 0
    /\ token = NoToken
    /\ result = NoCall
    /\ threads = IdleThreads

\* EmailManager(app): the sender address is read from the configuration once
EmailInit ==
    /\ TokenIdle
    /\ app_testing \in BOOLEAN
    /\ sender_email \in SenderEmails
    /\ outbox = <<>>
    /\ email_result = NoSend

\* app.testing is switched
SetTesting(b) ==
    /\ app_testing # b
    /\ app_testing' = b
    /\ UNCHANGED <<sender_email, outbox, email_result, tokenVars, threads>>

SendEmailMessage(msg) ==
    /\ Len(outbox) < MaxOutbox
    /\ \E r \in {send_email_message(app_testing, sender_email, outbox, msg)} :
          /\ outbox' = r.outbox
          /\ email_result' = [op |-> "_send_email_message", msg |-> msg, testing |-> app_testing,
                              before |-> Len(outbox), exc |-> r.exc]
    /\ UNCHANGED <<app_testing, sender_email, tokenVars, threads>>

EmailNext ==
    \/ \E b \in BOOLEAN : SetTesting(b)
    \/ \E msg \in Messages : SendEmailMessage(msg)

SpecEmail == EmailInit /\ [][EmailNext]_vars

(***************************************************************************)
(* Claims about the token manager                                          *)
(***************************************************************************)
\* verify_token has just ended
Verified == result.op = "verify_token"

\* ... and the token it was given is the one generate_token last returned
VerifiedIssued == Verified /\ token # NoToken /\ result.token = The(token).text

Returned(outcome) == result.exc = NoExc /\ result.val = outcome

\* whether the token's tag is the tag of its payload and timestamp under the
\* manager's secret
TagMatches(tok) ==
    Let(LastIndexOf(tok, ChSep), LAMBDA cut :
        /\ cut > 0
        /\ verify_signature(The(manager).signer, SubSeq(tok, 1, cut - 1),
                            SubSeq(tok, cut + 1, Len(tok))))

\* C1: a token verified later than T + max_age, T the time it was generated
\* and max_age the caller's, yields (False, True, None)
C1_ExpiredPastCallersMaxAge ==
    (VerifiedIssued /\ result.at > The(token).at + result.max_age)
        => Returned(Outcome(FALSE, TRUE, None))

\* C2: a token for an id within the width, verified no later than T + max_age,
\* yields (True, False, id), however large max_age is
C2_ValidWithinCallersMaxAge ==
    (VerifiedIssued /\ InRange(The(token).user_id)
        /\ result.at <= The(token).at + result.max_age)
        => Returned(Outcome(TRUE, FALSE, Some(The(token).user_id)))

\* C3: a token whose signature and age pass (within the caller's max_age and
\* within the one verify_token hands to unsign) but whose payload does not
\* decode yields (False, False, None)
C3_UndecodablePayloadInvalid ==
    (Verified
        /\ unsign(The(manager).signer, result.token, result.max_age, result.at).exc = NoExc
        /\ Let(unsign(The(manager).signer, result.token, UnsignMaxAge, result.at), LAMBDA data :
               data.exc = NoExc /\ decrypt_id_try(The(manager), data.val).exc # NoExc))
        => Returned(Outcome(FALSE, FALSE, None))

\* the position of the one character in which b differs from a
ChangedAt(a, b) == CHOOSE i \in 1..Len(a) : a[i] # b[i]

\* C4 as stated: a generated token with exactly one character changed, in
\* whichever segment, yields (False, False, None)
C4_AnyOneCharChangeInvalid ==
    (Verified /\ token # NoToken /\ DiffersInOne(The(token).text, result.token))
        => Returned(Outcome(FALSE, FALSE, None))

\* C4 amended: a token whose tag does not match its payload and timestamp
\* under the manager's key yields (False, False, None) at every time and for
\* every max_age, and so does a generated token with one character changed in
\* its payload or timestamp segment
C4_BadTagInvalid ==
    /\ (Verified /\ ~TagMatches(result.token)) => Returned(Outcome(FALSE, FALSE, None))
    /\ (Verified /\ token # NoToken /\ DiffersInOne(The(token).text, result.token)
            /\ ChangedAt(The(token).text, result.token) < LastIndexOf(The(token).text, ChSep))
         => Returned(Outcome(FALSE, FALSE, None))

\* a token with one character changed, older than any max_age, was verified
C4_Witness ==
    /\ Verified /\ token # NoToken
    /\ DiffersInOne(The(token).text, result.token)
    /\ ~TagMatches(result.token)
    /\ result.at - The(token).at > UnsignMaxAge
    /\ Returned(Outcome(FALSE, FALSE, None))

\* C5: verify_token raises nothing, whatever the string, and returns one of
\* (True, False, id), (False, True, None) and (False, False, None)
C5_VerifyTotal ==
    Verified =>
        /\ result.exc = NoExc
        /\ result.val.is_valid => (~result.val.has_expired /\ result.val.user_id # None)
        /\ ~result.val.is_valid => result.val.user_id = None

\* verify_token was given the empty string, and a string with bytes outside
\* ASCII and outside the base-64 alphabet
C5_Witness ==
    /\ Verified
    /\ result.token \in {<<>>, <<200, 46, 33, 46, 61>>}
    /\ Returned(Outcome(FALSE, FALSE, None))

\* C8: no manager exists whose secret is empty
C8_NoManagerFromEmptySecret ==
    manager # NoManager => The(manager).signer # <<>>

(***************************************************************************)
(* Claims about the codec                                                  *)
(***************************************************************************)
\* C6: decrypt_id(encrypt_id(id)) = id for every id of at most 16 digits
C6_RoundTrip ==
    (result.op = "decrypt_id" /\ result.of # None /\ InRange(The(result.of)))
        => result.val = The(result.of)

\* an id of exactly 16 digits went through encrypt_id and decrypt_id
C6_Witness ==
    /\ result.op = "decrypt_id" /\ result.of # None
    /\ Len(The(result.of).digs) = IdWidth
    /\ result.val = The(result.of)

\* C7: encrypt_id of an id of more than 16 digits raises
C7_OversizeIdRaises ==
    (result.op = "encrypt_id" /\ ~InRange(result.id)) => result.exc # NoExc

(***************************************************************************)
(* Claims about the email manager                                          *)
(***************************************************************************)
\* the sender address is set and contains '@'
SenderValid == sender_email # None /\ Contains(The(sender_email), ChAt)

\* C10: the mailer gets the message only when app.testing is false and the
\* sender address is set and contains '@'; with app.testing true the call
\* returns without sending and without raising, whatever the sender address;
\* with app.testing false and the address missing or without '@' it raises
\* ConfigError and nothing is sent
C10_SendGuard ==
    /\ outbox # <<>> => SenderValid
    /\ email_result.op = "_send_email_message" =>
        /\ email_result.testing =>
              email_result.exc = NoExc /\ Len(outbox) = email_result.before
        /\ (~email_result.testing /\ ~SenderValid) =>
              email_result.exc = "ConfigError" /\ Len(outbox) = email_result.before
        /\ (~email_result.testing /\ SenderValid) =>
              /\ email_result.exc = NoExc
              /\ Len(outbox) = email_result.before + 1
              /\ Last(outbox) = email_result.msg

\* a call with app.testing true and no valid sender address has returned
C10_Witness ==
    /\ email_result.op = "_send_email_message"
    /\ email_result.testing
    /\ ~SenderValid
    /\ email_result.exc = NoExc

(***************************************************************************)
(* Claims about concurrent calls                                           *)
(***************************************************************************)
\* what the call of thread t returns when it runs alone on the manager it
\* found, with the clock reading it got
Alone(t) ==
    IF t.op = "generate_token"
    THEN generate_token(The(t.seen), t.user_id, t.clock)
    ELSE verify_token(The(t.seen), t.tok, t.max_age, t.clock)

\* C9: no call changes the manager's cipher key or signer, and a call that ran
\* interleaved with others returns what it returns when run alone
C9_CallsIndependent ==
    \A th \in ThreadIds :
        /\ threads[th].pc # "idle" => manager = threads[th].seen
        /\ threads[th].pc = "done" => threads[th].ret = Alone(threads[th])

\* a call has returned a token or an outcome after another thread ran in the
\* middle of it
C9_Witness ==
    \E th \in ThreadIds :
        /\ threads[th].pc = "done"
        /\ threads[th].mixed
        /\ threads[th].ret.exc = NoExc

====
